---- MODULE Spec2Model ----
(***************************************************************************)
(* Model of mercury's asset generation pipeline (src/main.py): the         *)
(* `generate` and `all` commands, which load a playlist, reset the output  *)
(* directory and run generate_histogram, generate_cards and generate_box.  *)
(*                                                                         *)
(* Strings are sequences of code points ("1999" is <<49,57,57,57>>), so    *)
(* that Python's lexicographic min/max over strings and int() parsing are  *)
(* modelled by what they do.                                               *)
(***************************************************************************)
EXTENDS Integers, Sequences, FiniteSets

VARIABLES
    command,      \* "generate" or "all": the click command that was invoked
    playlist,     \* [name, tracks]: the record json.load / get_playlist returns
    bodyBBox,     \* Pillow: text -> <<left, right>> of draw.textbbox(.., font=FONT)
    largeBBox,    \* Pillow: text -> <<left, right>> of draw.textbbox(.., font=LARGE_FONT)
    nameLength64, \* Pillow: draw.textlength(name, font=FONT), in 1/64 pixel
    pre,          \* the output target before the run: [dirs, files]
    dirs,         \* directories that exist under (and including) the output target
    files,        \* function: path of an existing file -> its content
    pc,           \* the statement the command is about to execute
    i,            \* enumerate() index of the running card loop
    log,          \* the records logger.info has emitted, in order
    status,       \* "running", "done" or "failed" (an exception left the command)
    failedAt,     \* the stage the exception was raised in ("" while none)
    err           \* the exception's type ("" while none)

vars == <<command, playlist, bodyBBox, largeBBox, nameLength64, pre, dirs, files,
          pc, i, log, status, failedAt, err>>

(***************************************************************************)
(* Bounds of the model.                                                    *)
(***************************************************************************)
MaxTracks == 3
MaxYearSpan == 2
MaxLenUnits == 13

(***************************************************************************)
(* Module constants of src/main.py.                                        *)
(***************************************************************************)
CARD_W == 1000
CARD_WH == CARD_W \div 2
CARD_W6 == CARD_W \div 6
FONT_SIZE == 32
QR_W == 700
TEXT_MARGIN == 100

(***************************************************************************)
(* Strings.                                                                *)
(***************************************************************************)
IsDigit(c) == c \in 48..57

\* "a 4-character numeral string"
WellFormedYear(s) == Len(s) = 4 /\ \A k \in 1..4 : IsDigit(s[k])

\* Python's str < str: code point by code point, a proper prefix is smaller.
RECURSIVE StrLess(_, _)
StrLess(s, t) ==
    IF s = <<>> THEN t # <<>>
    ELSE IF t = <<>> THEN FALSE
    ELSE IF Head(s) # Head(t) THEN Head(s) < Head(t)
    ELSE StrLess(Tail(s), Tail(t))

\* min(years) / max(years) of a non-empty list of strings.
MinStr(ss) == CHOOSE s \in {ss[k] : k \in 1..Len(ss)} :
                  \A k \in 1..Len(ss) : ~StrLess(ss[k], s)
MaxStr(ss) == CHOOSE s \in {ss[k] : k \in 1..Len(ss)} :
                  \A k \in 1..Len(ss) : ~StrLess(s, ss[k])

RECURSIVE StripLeft(_)
StripLeft(s) == IF s # <<>> /\ Head(s) = 32 THEN StripLeft(Tail(s)) ELSE s

RECURSIVE StripRight(_)
StripRight(s) ==
    IF s # <<>> /\ s[Len(s)] = 32 THEN StripRight(SubSeq(s, 1, Len(s) - 1)) ELSE s

RECURSIVE DigitsValue(_)
DigitsValue(s) ==
    IF s = <<>> THEN 0
    ELSE 10 * DigitsValue(SubSeq(s, 1, Len(s) - 1)) + (s[Len(s)] - 48)

\* int(s): surrounding blanks are stripped, one sign is allowed, the rest must be
\* one or more decimal digits; anything else raises ValueError.
IntParse(s) ==
    LET t == StripRight(StripLeft(s))
        signed == t # <<>> /\ Head(t) \in {43, 45}
        d == IF signed THEN Tail(t) ELSE t
    IN  IF d = <<>> \/ \E k \in 1..Len(d) : ~IsDigit(d[k])
        THEN [ok |-> FALSE, val |-> 0]
        ELSE [ok |-> TRUE,
              val |-> IF signed /\ Head(t) = 45 THEN 0 - DigitsValue(d)
                      ELSE DigitsValue(d)]

\* The decimal digits of n >= 0, most significant first ("0" for 0).
RECURSIVE Decimal(_)
Decimal(n) == IF n < 10 THEN <<48 + n>> ELSE Append(Decimal(n \div 10), 48 + (n % 10))

\* f"{n:0Wd}": decimal digits, left-padded with "0" to at least w characters.
RECURSIVE ZeroPad(_, _)
ZeroPad(s, w) == IF Len(s) >= w THEN s ELSE ZeroPad(<<48>> \o s, w)

\* f"{i:05d}"
Format05d(n) == ZeroPad(Decimal(n), 5)

(***************************************************************************)
(* The output target: directories and files.                               *)
(***************************************************************************)
OUT == "out"
BACKS == "out/backs"
FRONTS == "out/fronts"

NoFiles == [p \in {} |-> [kind |-> "old"]]

WriteFile(fs, p, c) == [q \in (DOMAIN fs) \cup {p} |-> IF q = p THEN c ELSE fs[q]]

KeepFiles(fs, keep) == [q \in keep |-> fs[q]]

\* pathlib.Path(output_directory, "hist.png")
HistPath == <<OUT, <<"hist", <<>>, ".png">>>>

\* pathlib.Path(output_directory, "box.png")
BoxPath == <<OUT, <<"box", <<>>, ".png">>>>

\* pathlib.Path(back_dir, f"back_{i:05d}.png")
BackPathFromOne(n) == <<BACKS, <<"back_", Format05d(n + 1), ".png">>>>
BackPath(n) == <<BACKS, <<"back_", Format05d(n), ".png">>>>

\* pathlib.Path(front_dir, f"front_{i:05d}.png")
FrontPath(n) == <<FRONTS, <<"front_", Format05d(n), ".png">>>>

OldFile == [kind |-> "old"]

(***************************************************************************)
(* generate_histogram.                                                     *)
(***************************************************************************)
\* years = list(map(lambda t: t["year"], playlist["tracks"]))
YearsOf(tracks) == [k \in 1..Len(tracks) |-> tracks[k].year]

\* len(range(b-a+1))
HistBinsExclusive(a, b) == IF b - a > 0 THEN b - a ELSE 0
HistBins(a, b) == IF b - a + 1 > 0 THEN b - a + 1 ELSE 0

\* for year in years: counts[int(year)-a] += 1
\* A list index in -n..-1 counts from the end; outside -n..n-1 it raises IndexError.
RECURSIVE HistCount(_, _, _, _)
HistCount(years, a, counts, j) ==
    IF j > Len(years) THEN [ok |-> TRUE, err |-> "", counts |-> counts]
    ELSE LET p == IntParse(years[j])
             n == Len(counts)
             idx == p.val - a
             at == IF idx < 0 THEN idx + n ELSE idx
         IN  IF ~p.ok THEN [ok |-> FALSE, err |-> "ValueError", counts |-> counts]
             ELSE IF idx >= n \/ idx < 0 - n
                  THEN [ok |-> FALSE, err |-> "IndexError", counts |-> counts]
             ELSE HistCount(years, a, [counts EXCEPT ![at + 1] = @ + 1], j + 1)

\* A chart with no bars, saved as if an empty track list were no error.
HistEmptyChart(title) ==
    [ok |-> TRUE, err |-> "",
     chart |-> [kind |-> "hist", labels |-> <<>>, counts |-> <<>>, title |-> title]]

\* min(years) of an empty list raises ValueError.
HistEmpty(title) ==
    [ok |-> FALSE, err |-> "ValueError",
     chart |-> [kind |-> "hist", labels |-> <<>>, counts |-> <<>>, title |-> title]]

\* Lines 87-98: the outcome of the computation before plt.savefig.
HistResult(tracks, title) ==
    LET none == [kind |-> "hist", labels |-> <<>>, counts |-> <<>>, title |-> title]
        years == YearsOf(tracks)
    IN  IF Len(tracks) = 0
        THEN HistEmpty(title)
        ELSE LET pa == IntParse(MinStr(years))
                 pb == IntParse(MaxStr(years))
             IN  IF ~pa.ok \/ ~pb.ok
                 THEN [ok |-> FALSE, err |-> "ValueError", chart |-> none]
                 ELSE LET a == pa.val
                          n == HistBins(a, pb.val)
                          r == HistCount(years, a, [k \in 1..n |-> 0], 1)
                      IN  [ok |-> r.ok, err |-> r.err,
                           chart |-> [kind |-> "hist",
                                      labels |-> [k \in 1..n |-> (k - 1) + a],
                                      counts |-> r.counts,
                                      title |-> title]]

(***************************************************************************)
(* generate_cards.                                                         *)
(***************************************************************************)
\* enumerate(playlist["tracks"]): index n (from 0) goes with the n-th track.
TrackAt(tracks, n) == tracks[n + 1]

\* back: the QR code of track["url"], resized to QR_W and pasted at (a, a).
BackImage(track) ==
    [kind |-> "back", size |-> <<CARD_W, CARD_W>>, qr |-> track.url,
     qrSize |-> <<QR_W, QR_W>>,
     at |-> <<CARD_WH - (QR_W \div 2), CARD_WH - (QR_W \div 2)>>]

\* The anchors of the three draw.text calls (anchor="mm").
YearAt == <<CARD_WH, CARD_WH>>
ArtistsAt == <<CARD_WH, CARD_W6>>
NameAtExactFraction == <<CARD_WH, (5 * CARD_W) \div 6>>
NameAt == <<CARD_WH, 5 * CARD_W6>>

FrontImage(track) ==
    [kind |-> "front", size |-> <<CARD_W, CARD_W>>,
     year |-> [text |-> track.year, at |-> YearAt, font |-> "LARGE_FONT"],
     artists |-> [text |-> track.artists, at |-> ArtistsAt, font |-> "FONT"],
     name |-> [text |-> track.name, at |-> NameAt, font |-> "FONT"]]

\* bbox[2]-bbox[0] >= CARD_W - TEXT_MARGIN, bbox given as <<bbox[0], bbox[2]>>.
TooLongStrict(bbox) == bbox[2] - bbox[1] > CARD_W - TEXT_MARGIN
TooLong(bbox) == bbox[2] - bbox[1] >= CARD_W - TEXT_MARGIN

\* logger.info(f'{field} "{value}" too long')
Warning(field, value) == [msg |-> "too long", field |-> field, value |-> value]

\* logger.info of a plain message
Info(msg) == [msg |-> msg, field |-> "", value |-> <<>>]

\* The records the three overflow checks of one track emit, in order.
FrontWarnings(track, large, body) ==
    (IF TooLong(large[track.year]) THEN <<Warning("year", track.year)>> ELSE <<>>)
    \o (IF TooLong(body[track.artists]) THEN <<Warning("artists", track.artists)>> ELSE <<>>)
    \o (IF TooLong(body[track.name]) THEN <<Warning("name", track.name)>> ELSE <<>>)

(***************************************************************************)
(* generate_box.                                                           *)
(***************************************************************************)
\* math.ceil of a length given in 1/64 pixel
Ceil64(n) == (n + 63) \div 64

\* z = int(FONT_SIZE*1.5)
BoxStep == (FONT_SIZE * 3) \div 2

\* range(start, stop, step) for step > 0, as the set of its elements.
Range(start, stop, step) ==
    IF stop <= start THEN {}
    ELSE {start + k * step : k \in 0..((stop - start - 1) \div step)}

\* The positions (x+y, y) draw.text is called with.
BoxLabelsFromZero(length) ==
    {<<x + y, y>> : x \in Range(0, CARD_W * 2, length + BoxStep),
                    y \in Range(0 - CARD_W, CARD_W * 2, BoxStep)}
BoxLabels(length) ==
    {<<x + y, y>> : x \in Range(0 - CARD_W, CARD_W * 2, length + BoxStep),
                    y \in Range(0 - CARD_W, CARD_W * 2, BoxStep)}

(***************************************************************************)
(* Inputs.                                                                 *)
(***************************************************************************)
\* Year strings: "1999", "2000", ... and strings that are not 4-digit numerals:
\* "2", "10", "30", "abcd".
GoodYears == {Decimal(1999 + k) : k \in 0..MaxYearSpan}
BadYears == {<<50>>, <<49, 48>>, <<51, 48>>, <<97, 98, 99, 100>>}
YearStrings == GoodYears \cup BadYears

Texts == {<<65>>, <<66>>}
Urls == {<<117, 49>>, <<117, 50>>}
PlaylistName == <<77>>

\* Rendered extents around the overflow threshold CARD_W - TEXT_MARGIN.
BBoxes == {<<0, CARD_W - TEXT_MARGIN - 1>>, <<0, CARD_W - TEXT_MARGIN>>,
           <<2, CARD_W - TEXT_MARGIN + 1>>}
NarrowBBox == <<0, CARD_W - TEXT_MARGIN - 1>>

\* Rendered lengths of the playlist name, in 1/64 pixel: 0, 250, 500, ... pixels,
\* each also with a fraction of a pixel more.
TextLengths == {(u * 250) * 64 + f : u \in 0..MaxLenUnits, f \in {0, 1}}

SeqsUpTo(S, n) == UNION {[1..m -> S] : m \in 0..n}

\* What the output target may hold before the run.
PreStates ==
    { [dirs |-> {}, files |-> NoFiles],
      [dirs |-> {OUT}, files |-> NoFiles],
      [dirs |-> {OUT, FRONTS}, files |-> [p \in {FrontPath(0)} |-> OldFile]],
      [dirs |-> {OUT, BACKS, FRONTS},
       files |-> [p \in {HistPath, BackPath(0), FrontPath(0)} |-> OldFile]] }

Track(y, u, a, n) == [year |-> y, url |-> u, artists |-> a, name |-> n]

InitWith(cmds, trackSet, pres, bodies, larges, lengths) ==
    /\ command \in cmds
    /\ \E ts \in SeqsUpTo(trackSet, MaxTracks) :
           playlist = [name |-> PlaylistName, tracks |-> ts]
    /\ pre \in pres
    /\ bodyBBox \in bodies
    /\ largeBBox \in larges
    /\ nameLength64 \in lengths
    /\ dirs = pre.dirs
    /\ files = pre.files
    /\ pc = "load"
    /\ i = 0
    /\ log = <<>>
    /\ status = "running"
    /\ failedAt = ""
    /\ err = ""

FixedBody == {[t \in Texts |-> NarrowBBox]}
FixedLarge == {[y \in YearStrings |-> NarrowBBox]}
FixedLength == {(MaxLenUnits * 250) * 64}
FreshTarget == {[dirs |-> {}, files |-> NoFiles]}

\* Any state of the output target, either command, a few playlists (one year
\* string is "abcd").  The playlist.json that `all` writes lies outside the output
\* target and is not modelled.
Init ==
    InitWith({"generate", "all"},
             {Track(y, <<117, 49>>, <<65>>, <<66>>) :
                 y \in {Decimal(1999), Decimal(2001), <<97, 98, 99, 100>>}},
             PreStates, FixedBody, FixedLarge, FixedLength)

\* Playlists over every year string.
InitHist ==
    InitWith({"generate"},
             {Track(y, <<117, 49>>, <<65>>, <<66>>) : y \in YearStrings},
             FreshTarget, FixedBody, FixedLarge, FixedLength)

\* Playlists whose tracks differ in every field.
InitCards ==
    InitWith({"generate"},
             {Track(Decimal(1999), u, <<65>>, n) : u \in Urls, n \in Texts}
                 \cup {Track(Decimal(2000), <<117, 49>>, <<66>>, <<66>>)},
             FreshTarget, FixedBody, FixedLarge, FixedLength)

\* Every rendering of the texts around the overflow threshold.
InitWarn ==
    InitWith({"generate"},
             {Track(Decimal(1999), <<117, 49>>, a, n) : a \in Texts, n \in Texts},
             FreshTarget, [Texts -> BBoxes],
             {[y \in YearStrings |-> b] : b \in BBoxes}, FixedLength)

\* Every length of the playlist name.
InitBox ==
    InitWith({"generate"},
             {Track(Decimal(1999), <<117, 49>>, <<65>>, <<66>>)},
             FreshTarget, FixedBody, FixedLarge, TextLengths)

(***************************************************************************)
(* The commands `generate` (lines 192-208) and `all` (lines 217-234).      *)
(***************************************************************************)
Raise(stage, e) ==
    /\ status' = "failed"
    /\ failedAt' = stage
    /\ err' = e
    /\ pc' = pc

NoRaise == UNCHANGED <<status, failedAt, err>>

Inputs == <<command, playlist, bodyBBox, largeBBox, nameLength64, pre>>

\* generate: json.load(open(playlist_json)); all: get_playlist(...), which logs and
\* fetches over HTTP.  Either may raise; nothing of the output target is touched.
LoadPlaylist ==
    /\ status = "running" /\ pc = "load"
    /\ \E ok \in BOOLEAN :
          /\ log' = IF command = "all"
                    THEN log \o <<Info("Fetching playlist...")>>
                    ELSE log
          /\ IF ok
             THEN /\ pc' = "rmtree"
                  /\ NoRaise
             ELSE Raise("load", IF command = "all" THEN "HTTPError" ELSE "OSError")
    /\ UNCHANGED <<Inputs, dirs, files, i>>

\* A removal that is not recursive: the target's own entry and its top-level files
\* go, its subdirectories and their files stay.
RemoveTreeShallow ==
    /\ status = "running" /\ pc = "rmtree"
    /\ dirs' = dirs \ {OUT}
    /\ files' = KeepFiles(files, {p \in DOMAIN files : p[1] # OUT})
    /\ pc' = "makedirs"
    /\ NoRaise
    /\ UNCHANGED <<Inputs, i, log>>

\* try: shutil.rmtree(output_directory) except: pass
\* A missing directory raises at once; an existing one is removed, or the removal
\* fails part-way, leaving the directory with some of its content.  Every error is
\* swallowed.
RemoveTree ==
    /\ status = "running" /\ pc = "rmtree"
    /\ IF OUT \notin dirs
       THEN UNCHANGED <<dirs, files>>
       ELSE \E ok \in BOOLEAN, keepD \in SUBSET (dirs \ {OUT}) :
              \E keepF \in SUBSET {p \in DOMAIN files : p[1] \in keepD \cup {OUT}} :
                 IF ok
                 THEN dirs' = {} /\ files' = NoFiles
                 ELSE dirs' = keepD \cup {OUT} /\ files' = KeepFiles(files, keepF)
    /\ pc' = "makedirs"
    /\ NoRaise
    /\ UNCHANGED <<Inputs, i, log>>

\* os.makedirs(output_directory, exist_ok=True), which the commands do not call.
MakeOutputDirectoryExistOk ==
    /\ status = "running" /\ pc = "makedirs"
    /\ dirs' = dirs \cup {OUT}
    /\ pc' = "histogram"
    /\ NoRaise
    /\ UNCHANGED <<Inputs, files, i, log>>

\* os.makedirs(output_directory)
MakeOutputDirectory ==
    /\ status = "running" /\ pc = "makedirs"
    /\ IF OUT \in dirs
       THEN Raise("makedirs", "FileExistsError") /\ UNCHANGED dirs
       ELSE dirs' = dirs \cup {OUT} /\ pc' = "histogram" /\ NoRaise
    /\ UNCHANGED <<Inputs, files, i, log>>

\* A pipeline that logs the histogram's error and carries on with the cards.
GenerateHistogramContinue ==
    /\ status = "running" /\ pc = "histogram"
    /\ log' = log \o <<Info("Generating histogram...")>>
    /\ LET r == HistResult(playlist.tracks, playlist.name)
       IN  files' = IF r.ok THEN WriteFile(files, HistPath, r.chart) ELSE files
    /\ pc' = "cards"
    /\ NoRaise
    /\ UNCHANGED <<Inputs, dirs, i>>

\* logger.info("Generating histogram..."); generate_histogram(output_directory, playlist)
\* plt.savefig is the last statement: an exception before it leaves no file.
GenerateHistogram ==
    /\ status = "running" /\ pc = "histogram"
    /\ log' = log \o <<Info("Generating histogram...")>>
    /\ LET r == HistResult(playlist.tracks, playlist.name)
       IN  IF r.ok
           THEN /\ files' = WriteFile(files, HistPath, r.chart)
                /\ pc' = "cards"
                /\ NoRaise
           ELSE /\ Raise("histogram", r.err)
                /\ UNCHANGED files
    /\ UNCHANGED <<Inputs, dirs, i>>

\* logger.info("Generating cards..."); generate_cards: os.makedirs(back_dir)
MakeBackDir ==
    /\ status = "running" /\ pc = "cards"
    /\ log' = log \o <<Info("Generating cards...")>>
    /\ IF BACKS \in dirs
       THEN Raise("cards", "FileExistsError") /\ UNCHANGED <<dirs, i>>
       ELSE dirs' = dirs \cup {BACKS} /\ i' = 0 /\ pc' = "backs" /\ NoRaise
    /\ UNCHANGED <<Inputs, files>>

\* One iteration of the loop over the backs (lines 110-115).
CardBack ==
    /\ status = "running" /\ pc = "backs"
    /\ i < Len(playlist.tracks)
    /\ files' = WriteFile(files, BackPath(i), BackImage(TrackAt(playlist.tracks, i)))
    /\ i' = i + 1
    /\ UNCHANGED <<Inputs, dirs, pc, log, status, failedAt, err>>

\* After the last back: os.makedirs(front_dir)
MakeFrontDir ==
    /\ status = "running" /\ pc = "backs"
    /\ i = Len(playlist.tracks)
    /\ IF FRONTS \in dirs
       THEN Raise("cards", "FileExistsError") /\ UNCHANGED <<dirs, i>>
       ELSE dirs' = dirs \cup {FRONTS} /\ i' = 0 /\ pc' = "fronts" /\ NoRaise
    /\ UNCHANGED <<Inputs, files, log>>

\* One iteration of the loop over the fronts (lines 123-149): draw the three texts,
\* log the overflow warnings, save the image.
CardFront ==
    /\ status = "running" /\ pc = "fronts"
    /\ i < Len(playlist.tracks)
    /\ LET track == TrackAt(playlist.tracks, i)
       IN  /\ log' = log \o FrontWarnings(track, largeBBox, bodyBBox)
           /\ files' = WriteFile(files, FrontPath(i), FrontImage(track))
    /\ i' = i + 1
    /\ UNCHANGED <<Inputs, dirs, pc, status, failedAt, err>>

\* generate_cards returns; logger.info("Generating box..."); generate_box.
\* range() raises ValueError for a step of zero.
GenerateBox ==
    /\ status = "running" /\ pc = "fronts"
    /\ i = Len(playlist.tracks)
    /\ log' = log \o <<Info("Generating box...")>>
    /\ LET length == Ceil64(nameLength64)
       IN  IF BoxStep = 0 \/ length + BoxStep = 0
           THEN Raise("box", "ValueError") /\ UNCHANGED files
           ELSE /\ files' = WriteFile(files, BoxPath,
                                      [kind |-> "box", size |-> <<CARD_W, CARD_W>>,
                                       text |-> playlist.name, length |-> length,
                                       labels |-> BoxLabels(length)])
                /\ pc' = "done"
                /\ status' = "done"
                /\ UNCHANGED <<failedAt, err>>
    /\ UNCHANGED <<Inputs, dirs, i>>

Next ==
    \/ LoadPlaylist
    \/ RemoveTree
    \/ MakeOutputDirectory
    \/ GenerateHistogram
    \/ MakeBackDir
    \/ CardBack
    \/ MakeFrontDir
    \/ CardFront
    \/ GenerateBox

Spec == Init /\ [][Next]_vars
SpecHist == InitHist /\ [][Next]_vars
SpecCards == InitCards /\ [][Next]_vars
SpecWarn == InitWarn /\ [][Next]_vars
SpecBox == InitBox /\ [][Next]_vars

(***************************************************************************)
(* Vocabulary of the properties.                                           *)
(***************************************************************************)
Tracks == playlist.tracks

Logged(msg) == \E k \in 1..Len(log) : log[k] = Info(msg)

\* generate_histogram has been called (and has returned or raised).
HistogramRan == Logged("Generating histogram...")

\* generate_cards has returned.
CardsCompleted ==
    \/ pc = "fronts" /\ i = Len(Tracks) /\ status = "running"
    \/ Logged("Generating box...")

\* The number of tracks whose front has been drawn and saved.
FrontsProcessed ==
    IF Logged("Generating box...") THEN Len(Tracks)
    ELSE IF pc = "fronts" THEN i ELSE 0

Generated(p) == files[p].kind # "old"

NoGeneratedFile == \A p \in DOMAIN files : ~Generated(p)

NoImageWritten == \A p \in DOMAIN files : files[p].kind \notin {"back", "front"}

YearNumber(s) == DigitsValue(s)

YearNumbers == {YearNumber(Tracks[k].year) : k \in 1..Len(Tracks)}

MinYear == CHOOSE m \in YearNumbers : \A v \in YearNumbers : m <= v

MaxYear == CHOOSE m \in YearNumbers : \A v \in YearNumbers : m >= v

RECURSIVE SumSeq(_)
SumSeq(q) == IF Len(q) = 0 THEN 0 ELSE q[1] + SumSeq(Tail(q))

AllYearsWellFormed == \A k \in 1..Len(Tracks) : WellFormedYear(Tracks[k].year)

(***************************************************************************)
(* C1.  For a playlist with at least one track, all of whose years are     *)
(* 4-character numeral strings, generate_histogram saves a chart with      *)
(* exactly maxYear - minYear + 1 bins labelled minYear..maxYear without    *)
(* gaps; the bin of year Y counts the tracks of year Y (zero when there is *)
(* none) and the counts add up to len(tracks).                             *)
(***************************************************************************)
C1_HistogramBins ==
    (Len(Tracks) > 0 /\ AllYearsWellFormed /\ HistogramRan) =>
        /\ status # "failed"
        /\ HistPath \in DOMAIN files
        /\ LET c == files[HistPath]
               n == MaxYear - MinYear + 1
           IN  /\ c.kind = "hist"
               /\ Len(c.labels) = n
               /\ Len(c.counts) = n
               /\ \A k \in 1..n :
                     /\ c.labels[k] = MinYear + (k - 1)
                     /\ c.counts[k] =
                           Cardinality({j \in 1..Len(Tracks) :
                                           YearNumber(Tracks[j].year) = c.labels[k]})
               /\ SumSeq(c.counts) = Len(Tracks)

\* Years 1999, 2001, 1999 have been charted as bins 1999, 2000, 2001 with
\* counts 2, 0, 1.
C1_Witness ==
    /\ YearsOf(Tracks) = <<Decimal(1999), Decimal(2001), Decimal(1999)>>
    /\ HistPath \in DOMAIN files
    /\ files[HistPath].labels = <<1999, 2000, 2001>>
    /\ files[HistPath].counts = <<2, 0, 1>>

(***************************************************************************)
(* C4.  If any track's year is not a 4-character numeral string,           *)
(* generate_histogram fails with a fatal error and hist.png is not         *)
(* written: it never completes with a chart.                               *)
(***************************************************************************)
C4_MalformedYearIsFatal ==
    (HistogramRan /\ ~AllYearsWellFormed) =>
        /\ status = "failed"
        /\ failedAt = "histogram"
        /\ HistPath \notin DOMAIN files

(***************************************************************************)
(* C5.  generate_histogram called with an empty track list fails           *)
(* (ValueError) before any file is written: hist.png does not exist        *)
(* afterwards and no empty chart is produced.                              *)
(***************************************************************************)
C5_EmptyTrackListFails ==
    (Len(Tracks) = 0 /\ HistogramRan) =>
        /\ status = "failed"
        /\ failedAt = "histogram"
        /\ err = "ValueError"
        /\ HistPath \notin DOMAIN files
        /\ DOMAIN files = {}

\* The histogram of an empty playlist has failed, in a target that held a
\* hist.png before the run.
C5_Witness ==
    /\ Len(Tracks) = 0
    /\ HistogramRan
    /\ status = "failed"
    /\ HistPath \in DOMAIN pre.files

(***************************************************************************)
(* C6.  A completed generate_cards run has written exactly len(tracks)     *)
(* back images and len(tracks) front images, named back_{i:05d}.png and    *)
(* front_{i:05d}.png for i = 0..len(tracks)-1; back image i encodes        *)
(* tracks[i].url and front image i shows the year, artists and name of     *)
(* tracks[i].                                                              *)
(***************************************************************************)
FiveDigits(n) ==
    <<48 + ((n \div 10000) % 10), 48 + ((n \div 1000) % 10), 48 + ((n \div 100) % 10),
      48 + ((n \div 10) % 10), 48 + (n % 10)>>

FilesIn(d) == {p \in DOMAIN files : p[1] = d}

C6_CardsIndexAligned ==
    CardsCompleted =>
        LET n == Len(Tracks)
            backName(k) == <<BACKS, <<"back_", FiveDigits(k), ".png">>>>
            frontName(k) == <<FRONTS, <<"front_", FiveDigits(k), ".png">>>>
        IN  /\ FilesIn(BACKS) = {backName(k) : k \in 0..(n - 1)}
            /\ FilesIn(FRONTS) = {frontName(k) : k \in 0..(n - 1)}
            /\ Cardinality(FilesIn(BACKS)) = n
            /\ Cardinality(FilesIn(FRONTS)) = n
            /\ \A k \in 0..(n - 1) :
                  /\ files[backName(k)].kind = "back"
                  /\ files[backName(k)].qr = Tracks[k + 1].url
                  /\ files[frontName(k)].kind = "front"
                  /\ files[frontName(k)].year.text = Tracks[k + 1].year
                  /\ files[frontName(k)].artists.text = Tracks[k + 1].artists
                  /\ files[frontName(k)].name.text = Tracks[k + 1].name

\* The cards of three tracks, no two of them alike, have all been written.
C6_Witness ==
    /\ CardsCompleted
    /\ Len(Tracks) = 3
    /\ Tracks[1].url # Tracks[2].url
    /\ Tracks[2].name # Tracks[3].name
    /\ Tracks[1].year # Tracks[3].year
    /\ Cardinality(FilesIn(BACKS)) = 3
    /\ Cardinality(FilesIn(FRONTS)) = 3

(***************************************************************************)
(* C7.  For every track and each of its fields year (large font), artists  *)
(* and name (body font), generate_cards logs an overflow warning naming    *)
(* the field and its value if and only if the rendered bounding-box width  *)
(* is >= 900; the warning is not fatal: the track's front image is saved   *)
(* and the loop goes on to the next track.                                 *)
(***************************************************************************)
Width(bbox) == bbox[2] - bbox[1]

Rendered(field, value) == IF field = "year" THEN largeBBox[value] ELSE bodyBBox[value]

FieldOf(track, field) ==
    IF field = "year" THEN track.year
    ELSE IF field = "artists" THEN track.artists ELSE track.name

WarningsFor(field, value) ==
    Cardinality({k \in 1..Len(log) :
                    log[k].msg = "too long" /\ log[k].field = field
                        /\ log[k].value = value})

C7_OverflowWarning ==
    /\ \A k \in 1..Len(Tracks) : \A field \in {"year", "artists", "name"} :
          LET value == FieldOf(Tracks[k], field)
              drawn == {j \in 1..FrontsProcessed : FieldOf(Tracks[j], field) = value}
          IN  WarningsFor(field, value) =
                  IF Width(Rendered(field, value)) >= 900 THEN Cardinality(drawn) ELSE 0
    /\ \A k \in 1..Len(log) :
          log[k].msg = "too long" =>
              \E j \in 1..FrontsProcessed : FieldOf(Tracks[j], log[k].field) = log[k].value
    /\ \A j \in 1..FrontsProcessed :
          /\ FrontPath(j - 1) \in DOMAIN files
          /\ files[FrontPath(j - 1)].kind = "front"
    /\ (pc = "fronts" /\ i < Len(Tracks)) => status = "running"
    /\ failedAt # "cards"

\* A run has finished in which the first track's name was exactly 900 wide and
\* warned about, its artists were not, and a second track followed.
C7_Witness ==
    /\ status = "done"
    /\ Len(Tracks) = 2
    /\ Width(bodyBBox[Tracks[1].name]) = 900
    /\ Width(bodyBBox[Tracks[1].artists]) < 900
    /\ WarningsFor("name", Tracks[1].name) >= 1
    /\ WarningsFor("artists", Tracks[1].artists) = 0
    /\ FrontPath(1) \in DOMAIN files

(***************************************************************************)
(* C8.  A generate (or all) run executes the generators in the order       *)
(* histogram, cards, box, and a fatal failure aborts the run at once: no   *)
(* later generator is started, nothing more is written, the caller sees    *)
(* one failure.  An empty track list fails the histogram and leaves no     *)
(* backs/, no fronts/ and no box.png.                                      *)
(***************************************************************************)
StageMessages ==
    <<Info("Generating histogram..."), Info("Generating cards..."),
      Info("Generating box...")>>

IsStageMessage(r) == \E k \in 1..3 : r = StageMessages[k]

StagesStarted == SelectSeq(log, IsStageMessage)

C8_FixedOrderAbortOnFailure ==
    /\ Len(StagesStarted) <= 3
    /\ StagesStarted = SubSeq(StageMessages, 1, Len(StagesStarted))
    /\ (BoxPath \in DOMAIN files /\ Generated(BoxPath)) => Len(StagesStarted) = 3
    /\ (\E p \in FilesIn(BACKS) \cup FilesIn(FRONTS) : Generated(p))
           => Len(StagesStarted) >= 2
    /\ status = "failed" =>
          /\ err # ""
          /\ ~ENABLED Next
          /\ failedAt \in {"load", "makedirs"} =>
                Len(StagesStarted) = 0 /\ NoGeneratedFile
          /\ failedAt = "histogram" =>
                /\ Len(StagesStarted) = 1
                /\ BACKS \notin dirs /\ FRONTS \notin dirs
                /\ DOMAIN files = {}
          /\ failedAt = "cards" =>
                Len(StagesStarted) = 2 /\ BoxPath \notin DOMAIN files
    /\ (HistogramRan /\ Len(Tracks) = 0) =>
          /\ status = "failed" /\ failedAt = "histogram"
          /\ BACKS \notin dirs /\ FRONTS \notin dirs
          /\ BoxPath \notin DOMAIN files

\* The `all` command, run on an earlier build with an empty playlist, has failed
\* in the histogram: the old backs/ is gone and no new one has been made.
C8_Witness ==
    /\ command = "all"
    /\ Len(Tracks) = 0
    /\ BACKS \in pre.dirs
    /\ status = "failed"
    /\ failedAt = "histogram"
    /\ StagesStarted = <<Info("Generating histogram...")>>
    /\ BACKS \notin dirs

(***************************************************************************)
(* C9.  For a playlist name of pixel width L >= 0, with S = 48 and the     *)
(* 1000 px canvas, generate_box draws labels at (x + y, y) for y in -1000, *)
(* -1000+S, ... < 2000 and x in -1000, -1000+(L+S), ... < 2000: the loops  *)
(* terminate; there are rows at or above y = 0 and within S of y = 999;    *)
(* and in every row with 0 <= y < 1000 the first label starts at or left   *)
(* of pixel 0, the last label ends at or right of pixel 999, and           *)
(* consecutive labels do not overlap and are exactly S pixels apart.       *)
(***************************************************************************)
BoxDrawn == BoxPath \in DOMAIN files /\ files[BoxPath].kind = "box"

RowStarts(labels, y) == {p[1] : p \in {q \in labels : q[2] = y}}

C9_BoxTilingCoversCanvas ==
    /\ Logged("Generating box...") => (status = "done" /\ BoxDrawn)
    /\ BoxDrawn =>
          LET labels == files[BoxPath].labels
              L == files[BoxPath].length
              rows == {p[2] : p \in labels}
          IN  /\ L >= 0
              /\ L * 64 >= nameLength64 /\ (L - 1) * 64 < nameLength64
              /\ L + 48 > 0
              /\ rows = {y \in (0 - 1000)..1999 : (y + 1000) % 48 = 0}
              /\ \E y \in rows : y <= 0
              /\ \E y \in rows : y <= 999 /\ 999 - y < 48
              /\ \A y \in rows :
                    LET starts == RowStarts(labels, y)
                    IN  /\ starts = {y + x : x \in
                                       {x \in (0 - 1000)..1999 : (x + 1000) % (L + 48) = 0}}
                        /\ (0 <= y /\ y < 1000) =>
                              /\ \E first \in starts :
                                    /\ \A t \in starts : first <= t
                                    /\ first <= 0
                              /\ \E last \in starts :
                                    /\ \A t \in starts : t <= last
                                    /\ last + L >= 999
                              /\ \A t \in starts :
                                    \/ \A u \in starts : u <= t
                                    \/ /\ t + L + 48 \in starts
                                       /\ \A u \in starts : ~(t < u /\ u < t + L + 48)

\* The box of a name 250 and 1/64 pixels long, i.e. L = 251, has been drawn.
C9_Witness ==
    /\ BoxDrawn
    /\ nameLength64 = 250 * 64 + 1
    /\ files[BoxPath].length = 251
    /\ <<0 - 1000 + 299 + 8, 8>> \in files[BoxPath].labels

(***************************************************************************)
(* C10.  As claimed: on every front image the three texts are anchored at  *)
(* x = 500 and at y = 166 (artists), 500 (year) and 833 = floor(5*1000/6)  *)
(* (title).                                                                *)
(***************************************************************************)
FrontFiles == {p \in FilesIn(FRONTS) : files[p].kind = "front"}

C10_TitleAtFloorOfFiveSixths ==
    \A p \in FrontFiles :
        /\ files[p].artists.at = <<500, 166>>
        /\ files[p].year.at = <<500, 500>>
        /\ files[p].name.at = <<500, 833>>

(***************************************************************************)
(* C10, amended.  On every front image the three texts are anchored at     *)
(* x = 500 and at y = 166 = floor(1000/6) (artists), 500 (year) and        *)
(* 830 = 5 * floor(1000/6) (title).                                        *)
(***************************************************************************)
C10_TitleAtFiveTimesSixth ==
    \A p \in FrontFiles :
        /\ files[p].artists.at = <<500, 166>>
        /\ files[p].year.at = <<500, 500>>
        /\ files[p].name.at = <<500, 830>>
        /\ files[p].artists.font = "FONT"
        /\ files[p].year.font = "LARGE_FONT"
        /\ files[p].name.font = "FONT"

\* A front image has been saved, its title anchored at y = 830.
C10_Witness ==
    /\ FrontPath(0) \in FrontFiles
    /\ files[FrontPath(0)].name.at[2] = 830

(***************************************************************************)
(* C2.  As claimed: if generation is invoked against an output target      *)
(* whose fronts/ subdirectory already exists, card generation fails and no *)
(* image file, back or front, has been written.                            *)
(***************************************************************************)
GeneratorsReached == pc \in {"histogram", "cards", "backs", "fronts", "done"}

====
